---- MODULE Spec2Model ----
(***************************************************************************)
(* Order integration service: the intake port (main.py), the saga          *)
(* orchestrator (workflow.py), the three protocol adapters and the WMS      *)
(* status listener (clients.py).                                            *)
(*                                                                          *)
(* Spec          intake + sagas (one background task per accepted Submit)   *)
(* ListenerSpec  the status listener thread and its broker                  *)
(* ListenerLive  ListenerSpec with the fairness of a running thread         *)
(***************************************************************************)
EXTENDS Integers, Sequences, FiniteSets, TLC

\* ------------------------------------------------------------------ bounds
MaxSubmits == 2        \* Submit requests made by the OMS
MaxMsgs == 2           \* status messages the WMS publishes
MaxFlips == 2          \* broker availability changes
MaxConns == 2          \* connections of the listener that the broker holds open at once

Submits == 1..MaxSubmits

VARIABLES
  pc,          \* pc[i]: position of request i / its saga
  order,       \* order[i]: order_data of saga i (order.dict())
  response,    \* response[i]: HTTP status returned to the submitter, 0 = none yet
  tasks,       \* tasks[i]: background tasks scheduled by request i
  reservation, \* reservation[i]: local 'reservation' (its status), "unbound" before line 88 returns
  is_client,   \* is_client[i]: TRUE once InventoryClient() was constructed
  wms_client,  \* wms_client[i]: "None", "open" or "closed" (the adapter's connection)
  exc,         \* exc[i]: exception in flight, "none" if none
  calls,       \* calls[i]: history of adapter calls, <<[op, res]>>
  logs,        \* logs[i]: set of log records emitted for saga i
  posted,      \* posted[i]: the request body of request i (history)
  rbody,       \* rbody[i]: the JSON body of the response to request i
  sent,        \* sent[i]: the requests saga i handed to the three forward calls
  channel,     \* channel[i]: the gRPC channel of saga i's InventoryClient
  http_client, \* http_client[i]: the httpx.Client of saga i's PaymentClient
  pubconn,     \* pubconn[i]: the connection basic_publish of saga i was called on
  orders,      \* wms.orders.new on the broker: the instructions it holds
  \* ---- status listener
  lpc,         \* position of start_wms_status_listener
  brokerUp,    \* the broker accepts connections
  flips,       \* availability changes so far
  queue,       \* wms.status.updates: message ids ready for delivery
  bodies,      \* bodies[m]: body of message m
  published,   \* number of messages published so far
  unacked,     \* set of <<connection, message>> delivered and without disposition
  disp,        \* disp[m]: dispositions the listener issued for m
  lconns,      \* open connections created by the listener
  cur,         \* the connection of the current loop iteration, 0 = none
  hadError,    \* the listener has handled an error
  recovered,   \* the listener consumed again after an error
  lastcb       \* the latest callback run: its message (0 = none) and its events

sagaVars == <<pc, order, response, tasks, reservation, is_client, wms_client, exc, calls, logs,
              posted, rbody, sent, channel, http_client, pubconn, orders>>
listenerVars == <<lpc, brokerUp, flips, queue, bodies, published, unacked, disp, lconns, cur,
                  hadError, recovered, lastcb>>
vars == <<sagaVars, listenerVars>>

\* ------------------------------------------------------------ data model
\* Amounts are decimal numbers kept in thousandths of a currency unit.
Item(s, q) == [sku |-> s, quantity |-> q]

OrderFields == {"orderId", "paymentToken", "totalAmount", "currency", "items"}

BaseOrder ==
  [present |-> OrderFields, orderId |-> "o1", paymentToken |-> "tok_ok",
   totalAmount |-> 149990, currency |-> "EUR", items |-> <<Item("A", 2), Item("B", 1)>>]

\* The request bodies the OMS may post: the base order and one-field variations.
Candidates ==
  { BaseOrder,
    [BaseOrder EXCEPT !.present = OrderFields \ {"orderId"}, !.orderId = ""],
    [BaseOrder EXCEPT !.orderId = ""],
    [BaseOrder EXCEPT !.items = <<>>],
    [BaseOrder EXCEPT !.items = <<Item("A", 0)>>],
    [BaseOrder EXCEPT !.items = <<Item("", 1)>>],
    [BaseOrder EXCEPT !.totalAmount = -1000],
    [BaseOrder EXCEPT !.totalAmount = 290],
    [BaseOrder EXCEPT !.totalAmount = 30] }

NoOrder == [BaseOrder EXCEPT !.present = {}, !.orderId = "", !.items = <<>>]

\* No response sent yet.
NoBody == [processingId |-> "", orderId |-> "", status |-> "", detail |-> ""]

\* OrderItem: sku: str; quantity: int = Field(..., gt=0)
ValidItem(it) == it.quantity > 0

\* NewOrderRequest: five required fields, items: List[OrderItem]
ValidRequest(c) ==
  /\ c.present = OrderFields
  /\ \A k \in 1..Len(c.items) : ValidItem(c.items[k])

\* The Order constraints of the data model (orderId and sku non-empty, items
\* non-empty, quantity > 0, totalAmount >= 0).
OrderConstraints(o) ==
  /\ "orderId" \in o.present /\ o.orderId # ""
  /\ Len(o.items) > 0
  /\ \A k \in 1..Len(o.items) : o.items[k].quantity > 0 /\ o.items[k].sku # ""
  /\ o.totalAmount >= 0

\* --------------------------------------------------- binary64 arithmetic
\* totalAmount is a Python float.  A binary64 value is modelled exactly, as a
\* significand (bit string, most significant bit first) and the exponent of
\* its last bit; the request carries the decimal amount in thousandths.
Precision == 53

\* Fraction bits computed by the decimal-to-binary division: enough for the
\* significand, the guard bit and the sticky bits of every amount >= 0.001.
FractionBits == 70

\* Denominator of the decimal amounts of the model (thousandths).
AmountScale == 1000

\* Bit strings are processed in limbs of LimbBits bits.
LimbBits == 10
LimbBase == 2^LimbBits

\* The w-bit string of n, 0 <= n < 2^w.
BitsOf(n, w) == [j \in 1..w |-> (n \div 2^(w - j)) % 2]

\* The value of a bit string of fewer than 31 bits.
RECURSIVE ValueOf(_)
ValueOf(b) ==
  IF Len(b) = 0 THEN 0
  ELSE IF Len(b) = 1 THEN b[1]
  ELSE LET h == Len(b) \div 2
       IN ValueOf(SubSeq(b, 1, h)) * 2^(Len(b) - h) + ValueOf(SubSeq(b, h + 1, Len(b)))

Zeros(k) == [j \in 1..k |-> 0]

\* b without its leading zeros.
Strip(b) ==
  LET ones == {j \in 1..Len(b) : b[j] = 1}
  IN IF ones = {} THEN <<>>
     ELSE SubSeq(b, CHOOSE j \in ones : \A k \in ones : j <= k, Len(b))

\* b padded on the left to a whole number of limbs.
Limbs(b) == Zeros((LimbBits - (Len(b) % LimbBits)) % LimbBits) \o b

\* Long division of the limb string b by the small integer d.
RECURSIVE LongDiv(_, _, _, _)
LongDiv(b, d, r, q) ==
  IF b = <<>> THEN [q |-> q, r |-> r]
  ELSE LET t == r * LimbBase + ValueOf(SubSeq(b, 1, LimbBits))
       IN LongDiv(SubSeq(b, LimbBits + 1, Len(b)), d, t % d,
                  q \o BitsOf(t \div d, LimbBits))

\* b * m + carry for the limb string b and a small integer m.
RECURSIVE MulSmall(_, _, _, _)
MulSmall(b, m, carry, acc) ==
  IF b = <<>> THEN BitsOf(carry, LimbBits) \o acc
  ELSE LET t == ValueOf(SubSeq(b, Len(b) - LimbBits + 1, Len(b))) * m + carry
       IN MulSmall(SubSeq(b, 1, Len(b) - LimbBits), m, t \div LimbBase,
                   BitsOf(t % LimbBase, LimbBits) \o acc)

\* Round-half-to-even of the bit string b (no leading zero) to Precision
\* bits; inexact says that nonzero bits follow b.  drop is the number of
\* bits removed.
RoundBits(b, inexact) ==
  IF Len(b) <= Precision THEN [m |-> b, drop |-> 0]
  ELSE LET m == SubSeq(b, 1, Precision)
           guard == b[Precision + 1]
           sticky == inexact \/ \E j \in (Precision + 2)..Len(b) : b[j] = 1
           up == guard = 1 /\ (sticky \/ m[Precision] = 1)
       IN [m |-> IF up THEN Strip(MulSmall(Limbs(m), 1, 1, <<>>)) ELSE m,
           drop |-> Len(b) - Precision]

\* float(n / 1000) for 0 < n < 2^30: the binary64 nearest to the decimal
\* amount, as the JSON parser produces it.
Double(n) ==
  LET d == LongDiv(BitsOf(n, 3 * LimbBits) \o Zeros(FractionBits), AmountScale, 0, <<>>)
      r == RoundBits(Strip(d.q), d.r # 0)
  IN [m |-> r.m, e |-> r.drop - FractionBits]

\* x * 100 in binary64.
TimesHundred(x) ==
  LET r == RoundBits(Strip(MulSmall(Limbs(x.m), 100, 0, <<>>)), FALSE)
  IN [m |-> r.m, e |-> x.e + r.drop]

\* int(x) for x > 0: the integer part.
Trunc(x) ==
  IF x.e >= 0 THEN ValueOf(x.m \o Zeros(x.e))
  ELSE IF -x.e >= Len(x.m) THEN 0
  ELSE ValueOf(SubSeq(x.m, 1, Len(x.m) + x.e))

\* amount_cents = int(order_data["totalAmount"] * 100); int() truncates
\* toward zero and binary64 arithmetic is symmetric in the sign.
ToCents(n) ==
  IF n = 0 THEN 0
  ELSE IF n < 0 THEN -Trunc(TimesHundred(Double(-n)))
  ELSE Trunc(TimesHundred(Double(n)))

\* The conversion on the amounts that requests of the model carry.
Amounts == {c.totalAmount : c \in Candidates}
AmountCents == [n \in Amounts |-> ToCents(n)]

\* ------------------------------------------------------- request payloads
\* uuid.uuid4(): a fresh value, identified by the invocation that drew it
\* (saga i, position n in the saga's call history).
Uuid4(i, n) == [src |-> "uuid4", saga |-> i, n |-> n, oid |-> ""]

\* An identifier derived from the order instead of uuid4.
IdFromOrder(i, o) == [src |-> "order", saga |-> 0, n |-> 0, oid |-> o.orderId]

\* The item list in reverse order.
ProtoItems_Reversed(items) ==
  [j \in 1..Len(items) |-> Item(items[Len(items) + 1 - j].sku, items[Len(items) + 1 - j].quantity)]

\* proto_items = [inventory_pb2.Item(sku=..., quantity=...) for item in items]
ProtoItems(items) == [j \in 1..Len(items) |-> Item(items[j].sku, items[j].quantity)]

\* ReserveItemsRequest(order_id=order_id, items=proto_items)
ReserveRequest(o) ==
  [op |-> "ReserveItems", orderId |-> o.orderId, items |-> ProtoItems(o.items)]

IdempotencyKey_FromOrder(i, o) == IdFromOrder(i, o)

\* idempotency_key = str(uuid.uuid4()), drawn by every create_charge call.
IdempotencyKey(i, o) == Uuid4(i, Len(calls[i]) + 1)

\* The POST /v2/charges request: payload and Idempotency-Key header.
ChargeRequest(i, o) ==
  [op |-> "CreateCharge", amount |-> AmountCents[o.totalAmount], currency |-> o.currency,
   paymentToken |-> o.paymentToken, referenceId |-> o.orderId,
   idempotencyKey |-> IdempotencyKey(i, o)]

InstructionId_FromOrder(i, o) == IdFromOrder(i, o)

\* "instructionId": str(uuid.uuid4()), drawn by every send_shipment_instruction.
InstructionId(i, o) == Uuid4(i, Len(calls[i]) + 1)

\* A shipment message that carries the instruction id only.
ShipmentMessage_NoOrder(i, o) ==
  [op |-> "Publish", instructionId |-> InstructionId(i, o), orderId |-> "", items |-> <<>>]

\* The message published to wms.orders.new (order_data['items'] verbatim).
ShipmentMessage(i, o) ==
  [op |-> "Publish", instructionId |-> InstructionId(i, o), orderId |-> o.orderId,
   items |-> o.items]

\* --------------------------------------------------------- exception kinds
\* Python exception classes that the adapters raise, with their base classes.
Bases(k) ==
  CASE k = "RpcError"            -> {"RpcError", "Exception"}
    [] k = "HTTPStatusError"     -> {"HTTPStatusError", "HTTPError", "Exception"}
    [] k = "ReadTimeout"         -> {"ReadTimeout", "TimeoutException", "HTTPError", "Exception"}
    [] k = "ConnectError"        -> {"ConnectError", "NetworkError", "HTTPError", "Exception"}
    [] k = "AMQPConnectionError" -> {"AMQPConnectionError", "AMQPError", "Exception"}
    [] k = "AMQPChannelError"    -> {"AMQPChannelError", "AMQPError", "Exception"}
    [] k = "JSONDecodeError"     -> {"JSONDecodeError", "ValueError", "Exception"}
    [] k = "UnicodeDecodeError"  -> {"UnicodeDecodeError", "ValueError", "Exception"}
    [] k = "AttributeError"      -> {"AttributeError", "Exception"}
    [] OTHER                     -> {k, "Exception"}

IsInstance(k, cls) == cls \in Bases(k)

\* ------------------------------------------------------------ environment
ReservationStatuses == {"RESERVED", "OUT_OF_STOCK", "ITEM_NOT_FOUND", "UNKNOWN_STATUS"}

\* What a call to the inventory stub does: return a value or raise.
Returned(v) == [raised |-> "none", val |-> v]
Raised(k) == [raised |-> k, val |-> ""]

ReserveOutcomes == {Returned(st) : st \in ReservationStatuses} \cup {Raised("RpcError"), Raised("Exception")}
ReleaseOutcomes == {Returned("released"), Raised("RpcError"), Raised("Exception")}

\* What the payment service does to POST /v2/charges: an HTTP response with a
\* status and a body (a JSON object, the JSON value null, or text that is no
\* JSON), or a transport failure.
HttpStatuses == {200, 402, 500}
BodyKinds == {"object", "null", "text"}
ChargeOutcomes ==
  [http : HttpStatuses, body : BodyKinds, raised : {"none"}]
    \cup [http : {0}, body : {"text"}, raised : {"ReadTimeout", "ConnectError", "Exception"}]

\* What the broker does to a connect (connection, channel, queue_declare), a
\* publish or a close.
ConnectOutcomes == {"none", "AMQPConnectionError", "AMQPChannelError", "Exception"}
PublishOutcomes == {"none", "AMQPConnectionError", "AMQPChannelError", "Exception"}
CloseOutcomes == {"none", "AMQPConnectionError"}

\* ------------------------------------------------------------------- logs
LogRec(i, lvl, src, msg) == [lvl |-> lvl, src |-> src, msg |-> msg, oid |-> order[i].orderId]

Call(op, raised, val, http) == [op |-> op, raised |-> raised, val |-> val, http |-> http]

\* ------------------------------------------------------------ initial state
Init ==
  /\ pc = [i \in Submits |-> "unsubmitted"]
  /\ order = [i \in Submits |-> NoOrder]
  /\ response = [i \in Submits |-> 0]
  /\ tasks = [i \in Submits |-> 0]
  /\ reservation = [i \in Submits |-> "unbound"]
  /\ is_client = [i \in Submits |-> FALSE]
  /\ wms_client = [i \in Submits |-> "None"]
  /\ exc = [i \in Submits |-> "none"]
  /\ calls = [i \in Submits |-> <<>>]
  /\ logs = [i \in Submits |-> {}]
  /\ posted = [i \in Submits |-> NoOrder]
  /\ rbody = [i \in Submits |-> NoBody]
  /\ sent = [i \in Submits |-> <<>>]
  /\ channel = [i \in Submits |-> "none"]
  /\ http_client = [i \in Submits |-> "none"]
  /\ pubconn = [i \in Submits |-> "none"]
  /\ orders = {}
  /\ lpc = "connect"
  /\ brokerUp = TRUE
  /\ flips = 0
  /\ queue = <<>>
  /\ bodies = <<>>
  /\ published = 0
  /\ unacked = {}
  /\ disp = <<>>
  /\ lconns = {}
  /\ cur = 0
  /\ hadError = FALSE
  /\ recovered = FALSE
  /\ lastcb = [m |-> 0, ev |-> <<>>]

\* ------------------------------------------------------------ intake port
\* Response bodies: the accepted body of submit_order, the detail of the
\* HTTPException, and the framework's validation error.
AcceptedBody(o) ==
  [processingId |-> "proc-" \o o.orderId, orderId |-> o.orderId,
   status |-> "Processing accepted", detail |-> ""]

ErrorBody(detail) == [processingId |-> "", orderId |-> "", status |-> "", detail |-> detail]

\* Submit that schedules the saga before the request is validated.
Submit_ScheduleThenValidate(i) ==
  /\ pc[i] = "unsubmitted"
  /\ i > 1 => pc[i - 1] # "unsubmitted"
  /\ \E c \in Candidates :
       /\ posted' = [posted EXCEPT ![i] = c]
       /\ pc' = [pc EXCEPT ![i] = "scheduled"]
       /\ order' = [order EXCEPT ![i] = c]
       /\ tasks' = [tasks EXCEPT ![i] = @ + 1]
       /\ response' = [response EXCEPT ![i] = IF ValidRequest(c) THEN 202 ELSE 422]
       /\ rbody' = [rbody EXCEPT ![i] = IF ValidRequest(c) THEN AcceptedBody(c)
                                         ELSE ErrorBody("validation error")]
  /\ UNCHANGED <<reservation, is_client, wms_client, exc, calls, logs, sent, channel,
                 http_client, pubconn, orders, listenerVars>>

\* Submit that waits for the sagas already scheduled before it answers.
Submit_WaitsForSagas(i) ==
  /\ pc[i] = "unsubmitted"
  /\ i > 1 => pc[i - 1] \in {"rejected", "failed", "returned", "raised"}
  /\ \E c \in Candidates :
       /\ posted' = [posted EXCEPT ![i] = c]
       /\ IF ~ValidRequest(c)
          THEN /\ pc' = [pc EXCEPT ![i] = "rejected"]
               /\ response' = [response EXCEPT ![i] = 422]
               /\ rbody' = [rbody EXCEPT ![i] = ErrorBody("validation error")]
               /\ UNCHANGED <<order, tasks>>
          ELSE /\ pc' = [pc EXCEPT ![i] = "scheduled"]
               /\ order' = [order EXCEPT ![i] = c]
               /\ tasks' = [tasks EXCEPT ![i] = @ + 1]
               /\ response' = [response EXCEPT ![i] = 202]
               /\ rbody' = [rbody EXCEPT ![i] = AcceptedBody(c)]
  /\ UNCHANGED <<reservation, is_client, wms_client, exc, calls, logs, sent, channel,
                 http_client, pubconn, orders, listenerVars>>

\* Submit that answers 202 without add_task.
Submit_NoAddTask(i) ==
  /\ pc[i] = "unsubmitted"
  /\ i > 1 => pc[i - 1] # "unsubmitted"
  /\ \E c \in Candidates :
       /\ posted' = [posted EXCEPT ![i] = c]
       /\ pc' = [pc EXCEPT ![i] = IF ValidRequest(c) THEN "failed" ELSE "rejected"]
       /\ response' = [response EXCEPT ![i] = IF ValidRequest(c) THEN 202 ELSE 422]
       /\ rbody' = [rbody EXCEPT ![i] = IF ValidRequest(c) THEN AcceptedBody(c)
                                         ELSE ErrorBody("validation error")]
       /\ UNCHANGED <<order, tasks>>
  /\ UNCHANGED <<reservation, is_client, wms_client, exc, calls, logs, sent, channel,
                 http_client, pubconn, orders, listenerVars>>

\* Submit that refuses an orderId it has already accepted.
Submit_Deduplicates(i) ==
  /\ pc[i] = "unsubmitted"
  /\ i > 1 => pc[i - 1] # "unsubmitted"
  /\ \E c \in Candidates :
       /\ posted' = [posted EXCEPT ![i] = c]
       /\ IF ~ValidRequest(c)
          THEN /\ pc' = [pc EXCEPT ![i] = "rejected"]
               /\ response' = [response EXCEPT ![i] = 422]
               /\ rbody' = [rbody EXCEPT ![i] = ErrorBody("validation error")]
               /\ UNCHANGED <<order, tasks>>
          ELSE IF \E j \in Submits : response[j] = 202 /\ order[j].orderId = c.orderId
          THEN /\ pc' = [pc EXCEPT ![i] = "rejected"]
               /\ response' = [response EXCEPT ![i] = 409]
               /\ rbody' = [rbody EXCEPT ![i] = ErrorBody("duplicate order")]
               /\ UNCHANGED <<order, tasks>>
          ELSE /\ pc' = [pc EXCEPT ![i] = "scheduled"]
               /\ order' = [order EXCEPT ![i] = c]
               /\ tasks' = [tasks EXCEPT ![i] = @ + 1]
               /\ response' = [response EXCEPT ![i] = 202]
               /\ rbody' = [rbody EXCEPT ![i] = AcceptedBody(c)]
  /\ UNCHANGED <<reservation, is_client, wms_client, exc, calls, logs, sent, channel,
                 http_client, pubconn, orders, listenerVars>>

\* POST /v1/orders: validation by NewOrderRequest (a 422 of the framework),
\* then submit_order.  An internal error raised inside the try block before
\* add_task gives a 500; otherwise the workflow is added as a background
\* task with order.dict() and the accepted body is returned.
Submit(i) ==
  /\ pc[i] = "unsubmitted"
  /\ i > 1 => pc[i - 1] # "unsubmitted"
  /\ \E c \in Candidates, internalError \in BOOLEAN :
       /\ posted' = [posted EXCEPT ![i] = c]
       /\ IF ~ValidRequest(c)
          THEN /\ pc' = [pc EXCEPT ![i] = "rejected"]
               /\ response' = [response EXCEPT ![i] = 422]
               /\ rbody' = [rbody EXCEPT ![i] = ErrorBody("validation error")]
               /\ UNCHANGED <<order, tasks>>
          ELSE IF internalError
          THEN /\ pc' = [pc EXCEPT ![i] = "failed"]
               /\ response' = [response EXCEPT ![i] = 500]
               /\ rbody' = [rbody EXCEPT ![i] =
                              ErrorBody("Internal server error while accepting order.")]
               /\ UNCHANGED <<order, tasks>>
          ELSE /\ pc' = [pc EXCEPT ![i] = "scheduled"]
               /\ order' = [order EXCEPT ![i] = c]
               /\ tasks' = [tasks EXCEPT ![i] = @ + 1]
               /\ response' = [response EXCEPT ![i] = 202]
               /\ rbody' = [rbody EXCEPT ![i] = AcceptedBody(c)]
  /\ UNCHANGED <<reservation, is_client, wms_client, exc, calls, logs, sent, channel,
                 http_client, pubconn, orders, listenerVars>>

\* ------------------------------------------------------- saga orchestrator
\* OuterHandler that starts the saga over on an inventory RPC failure.
OuterHandler_RetryOnRpc(k) ==
  IF IsInstance(k, "RpcError") THEN "step1"
  ELSE IF IsInstance(k, "AMQPError") THEN "h_amqp"
  ELSE "h_exc"

\* OuterHandler without its AMQPError clause.
OuterHandler_NoAmqpClause(k) ==
  IF IsInstance(k, "RpcError") THEN "h_rpc" ELSE "h_exc"

\* The except clauses of the outer try statement, in their order.
OuterHandler(k) ==
  IF IsInstance(k, "RpcError") THEN "h_rpc"
  ELSE IF IsInstance(k, "AMQPError") THEN "h_amqp"
  ELSE "h_exc"

\* The except clauses of the try statement around create_charge; an exception
\* none of them matches reaches the outer try statement.
InnerHandler(k) ==
  IF IsInstance(k, "HTTPStatusError") THEN "comp_http"
  ELSE IF IsInstance(k, "ReadTimeout") \/ IsInstance(k, "ConnectError") THEN "comp_transport"
  ELSE OuterHandler(k)

\* AfterReserve without the check for any other status.
AfterReserve_NoOtherStatusCheck(status) ==
  IF status = "OUT_OF_STOCK" THEN "finally"
  ELSE IF status = "ITEM_NOT_FOUND" THEN "finally"
  ELSE "step2"

\* The three status checks after reserve_items returned.
AfterReserve(status) ==
  IF status = "OUT_OF_STOCK" THEN "finally"
  ELSE IF status = "ITEM_NOT_FOUND" THEN "finally"
  ELSE IF status # "RESERVED" THEN "finally"
  ELSE "step2"

AfterReserveLog(i, status) ==
  IF status = "OUT_OF_STOCK" THEN LogRec(i, "warning", "workflow", "cancelled_out_of_stock")
  ELSE IF status = "ITEM_NOT_FOUND" THEN LogRec(i, "error", "workflow", "cancelled_item_not_found")
  ELSE IF status # "RESERVED" THEN LogRec(i, "error", "workflow", "cancelled_unknown_status")
  ELSE LogRec(i, "info", "workflow", "reserved")

\* process_order_workflow up to the try statement.
SagaStart(i) ==
  /\ pc[i] = "scheduled"
  /\ pc' = [pc EXCEPT ![i] = "step1"]
  /\ logs' = [logs EXCEPT ![i] = @ \cup {LogRec(i, "info", "workflow", "start")}]
  /\ UNCHANGED <<order, response, tasks, posted, rbody, sent, channel, http_client,
                 reservation, is_client, wms_client, exc, calls, pubconn, orders,
                 listenerVars>>

\* Step 1: InventoryClient(), reserve_items, the status checks.
Step1Reserve(i) ==
  /\ pc[i] = "step1"
  /\ \E out \in ReserveOutcomes :
       /\ is_client' = [is_client EXCEPT ![i] = TRUE]
       /\ channel' = [channel EXCEPT ![i] = "open"]
       /\ calls' = [calls EXCEPT ![i] = Append(@, Call("ReserveItems", out.raised, out.val, 0))]
       /\ sent' = [sent EXCEPT ![i] = Append(@, ReserveRequest(order[i]))]
       /\ IF out.raised # "none"
          THEN /\ exc' = [exc EXCEPT ![i] = out.raised]
               /\ pc' = [pc EXCEPT ![i] = OuterHandler(out.raised)]
               /\ logs' = [logs EXCEPT ![i] = @ \cup
                            (IF IsInstance(out.raised, "RpcError")
                             THEN {LogRec(i, "error", "clients", "reserve_rpc_failed")} ELSE {})]
               /\ UNCHANGED reservation
          ELSE /\ reservation' = [reservation EXCEPT ![i] = out.val]
               /\ pc' = [pc EXCEPT ![i] = AfterReserve(out.val)]
               /\ logs' = [logs EXCEPT ![i] = @ \cup {AfterReserveLog(i, out.val)}]
               /\ UNCHANGED exc
  /\ UNCHANGED <<order, response, tasks, posted, rbody, http_client, wms_client, pubconn,
                 orders, listenerVars>>

\* PaymentClient.create_charge on what the payment service does.
CreateCharge(out) ==
  IF out.raised # "none" THEN Raised(out.raised)
  ELSE IF out.http >= 400
       THEN (IF out.http = 402 /\ out.body = "text"
             THEN Raised("JSONDecodeError")     \* e.response.json() inside the handler
             ELSE Raised("HTTPStatusError"))
  ELSE IF out.body = "text" THEN Raised("JSONDecodeError")
  ELSE Returned(IF out.body = "null" THEN "None" ELSE "dict")

CreateChargeLogs(i, out) ==
  IF IsInstance(out.raised, "ReadTimeout") THEN {LogRec(i, "error", "clients", "payment_timeout")}
  ELSE IF out.raised = "none" /\ out.http = 402 /\ out.body # "text"
       THEN {LogRec(i, "warning", "clients", "payment_declined")}
  ELSE IF out.raised = "none" /\ out.http >= 400 /\ out.http # 402
       THEN {LogRec(i, "error", "clients", "payment_http_error")}
  ELSE {}

\* Step 2: PaymentClient(), create_charge and the log line reading its result.
Step2Charge(i) ==
  /\ pc[i] = "step2"
  /\ http_client' = [http_client EXCEPT ![i] = "open"]
  /\ sent' = [sent EXCEPT ![i] = Append(@, ChargeRequest(i, order[i]))]
  /\ \E out \in ChargeOutcomes :
       LET r == CreateCharge(out)
           k == IF r.raised # "none" THEN r.raised
                ELSE IF r.val = "None" THEN "AttributeError"   \* payment_result.get
                ELSE "none"
       IN /\ calls' = [calls EXCEPT ![i] = Append(@, Call("CreateCharge", r.raised, r.val, out.http))]
          /\ IF k = "none"
             THEN /\ pc' = [pc EXCEPT ![i] = "step3_new"]
                  /\ logs' = [logs EXCEPT ![i] = @ \cup {LogRec(i, "info", "workflow", "payment_ok")}]
                  /\ UNCHANGED exc
             ELSE /\ pc' = [pc EXCEPT ![i] = InnerHandler(k)]
                  /\ exc' = [exc EXCEPT ![i] = k]
                  /\ logs' = [logs EXCEPT ![i] = @ \cup CreateChargeLogs(i, out)]
  /\ UNCHANGED <<order, response, tasks, posted, rbody, channel, reservation, is_client,
                 wms_client, pubconn, orders, listenerVars>>

\* InventoryClient.release_items_compensation: its log records.
ReleaseLogs(i, rel) ==
  {LogRec(i, "info", "clients", "release_sent")} \cup
  (IF IsInstance(rel.raised, "RpcError")
   THEN {LogRec(i, "critical", "clients", "compensation_failed")} ELSE {})

\* AfterCompHttp without the return: control falls through to step 3.
AfterCompHttp_NoReturn == "step3_new"

\* Where the HTTPStatusError handler goes after its compensation (return).
AfterCompHttp == "finally"

\* except httpx.HTTPStatusError: compensation inside try/except Exception.
CompHttp(i) ==
  /\ pc[i] = "comp_http"
  /\ \E rel \in ReleaseOutcomes :
       /\ calls' = [calls EXCEPT ![i] = Append(@, Call("ReleaseItems", rel.raised, rel.val, 0))]
       /\ logs' = [logs EXCEPT ![i] = @ \cup ReleaseLogs(i, rel) \cup
                    {LogRec(i, "error", "workflow", "payment_failed"),
                     IF rel.raised = "none"
                     THEN LogRec(i, "info", "workflow", "compensated")
                     ELSE LogRec(i, "critical", "workflow", "compensation_failed")}]
  /\ exc' = [exc EXCEPT ![i] = "none"]
  /\ pc' = [pc EXCEPT ![i] = AfterCompHttp]
  /\ UNCHANGED <<order, response, tasks, posted, rbody, sent, channel, http_client,
                 reservation, is_client, wms_client, pubconn, orders, listenerVars>>

\* except (httpx.ReadTimeout, httpx.ConnectError): compensation without a
\* try statement of its own; what release raises reaches the outer handlers.
CompTransport(i) ==
  /\ pc[i] = "comp_transport"
  /\ \E rel \in ReleaseOutcomes :
       /\ calls' = [calls EXCEPT ![i] = Append(@, Call("ReleaseItems", rel.raised, rel.val, 0))]
       /\ IF rel.raised = "none"
          THEN /\ exc' = [exc EXCEPT ![i] = "none"]
               /\ pc' = [pc EXCEPT ![i] = "finally"]
               /\ logs' = [logs EXCEPT ![i] = @ \cup ReleaseLogs(i, rel) \cup
                            {LogRec(i, "error", "workflow", "payment_unreachable"),
                             LogRec(i, "info", "workflow", "compensated")}]
          ELSE /\ exc' = [exc EXCEPT ![i] = rel.raised]
               /\ pc' = [pc EXCEPT ![i] = OuterHandler(rel.raised)]
               /\ logs' = [logs EXCEPT ![i] = @ \cup ReleaseLogs(i, rel) \cup
                            {LogRec(i, "error", "workflow", "payment_unreachable")}]
  /\ UNCHANGED <<order, response, tasks, posted, rbody, sent, channel, http_client,
                 reservation, is_client, wms_client, pubconn, orders, listenerVars>>

\* Step 3, first half: WMSClient() and its _connect.  wms_client stays None
\* when the constructor raises.
Step3New(i) ==
  /\ pc[i] = "step3_new"
  /\ \E co \in ConnectOutcomes :
       /\ calls' = [calls EXCEPT ![i] = Append(@, Call("WMSConnect", co, "", 0))]
       /\ IF co = "none"
          THEN /\ wms_client' = [wms_client EXCEPT ![i] = "open"]
               /\ pc' = [pc EXCEPT ![i] = "step3_send"]
               /\ logs' = [logs EXCEPT ![i] = @ \cup {LogRec(i, "info", "clients", "wms_connected")}]
               /\ UNCHANGED exc
          ELSE /\ exc' = [exc EXCEPT ![i] = co]
               /\ pc' = [pc EXCEPT ![i] = OuterHandler(co)]
               /\ logs' = [logs EXCEPT ![i] = @ \cup
                            (IF IsInstance(co, "AMQPConnectionError")
                             THEN {LogRec(i, "critical", "clients", "wms_connect_failed")} ELSE {})]
               /\ UNCHANGED wms_client
  /\ UNCHANGED <<order, response, tasks, posted, rbody, sent, channel, http_client,
                 reservation, is_client, pubconn, orders, listenerVars>>

\* send_shipment_instruction that never reconnects.
NeedsReconnect_Never(dropped) == FALSE

\* if not self.connection or self.connection.is_closed: self._connect()
\* (the constructor has set self.connection, so only is_closed can hold).
NeedsReconnect(dropped) == dropped

\* queue_declare(queue='wms.orders.new'): no durable argument.
OrdersQueueDurable == FALSE

\* properties=pika.BasicProperties(delivery_mode=2)
DeliveryMode == 2

\* The instruction of saga i as the broker holds it in wms.orders.new.
Enqueued(i, msg) == [saga |-> i, id |-> msg.instructionId, delivery_mode |-> DeliveryMode]

\* The broker restarts: a queue that is not durable is gone with all its
\* messages; a durable queue keeps its persistent messages (delivery mode 2).
BrokerRestart ==
  /\ orders # {}
  /\ orders' = IF OrdersQueueDurable THEN {q \in orders : q.delivery_mode = 2} ELSE {}
  /\ UNCHANGED <<pc, order, response, tasks, reservation, is_client, wms_client, exc, calls,
                 logs, posted, rbody, sent, channel, http_client, pubconn, listenerVars>>

\* Step 3, second half: send_shipment_instruction.  dropped: the broker has
\* closed the connection since the constructor; co: what the reconnect does;
\* po: what basic_publish does.
Step3Send(i) ==
  /\ pc[i] = "step3_send"
  /\ \E dropped \in BOOLEAN, co \in ConnectOutcomes, po \in PublishOutcomes :
       LET reconnect == NeedsReconnect(dropped)
           k == IF reconnect /\ co # "none" THEN co ELSE po
           ok == k = "none"
           \* the connection is closed if no connection could be made or the
           \* publish lost it; a failure after BlockingConnection leaves it open
           conn == IF reconnect /\ co # "none"
                   THEN (IF IsInstance(co, "AMQPConnectionError") THEN "closed" ELSE "open")
                   ELSE IF IsInstance(po, "AMQPConnectionError") THEN "closed"
                   ELSE "open"
           \* the connection basic_publish is called on
           on == IF reconnect THEN "reopened" ELSE IF dropped THEN "closed" ELSE "open"
       IN /\ ~reconnect => co = "none"
          /\ on = "closed" => po # "none"
          /\ (reconnect /\ co # "none") => po = "none"
          /\ calls' = [calls EXCEPT ![i] =
                         @ \o (IF reconnect THEN <<Call("WMSConnect", co, "", 0)>> ELSE <<>>)
                           \o (IF reconnect /\ co # "none" THEN <<>>
                               ELSE <<Call("Publish", po, order[i].orderId, 0)>>)]
          /\ sent' = [sent EXCEPT ![i] =
                        IF reconnect /\ co # "none" THEN @
                        ELSE Append(@, ShipmentMessage(i, order[i]))]
          /\ wms_client' = [wms_client EXCEPT ![i] = conn]
          /\ pubconn' = [pubconn EXCEPT ![i] = IF reconnect /\ co # "none" THEN @ ELSE on]
          /\ orders' = IF ok THEN orders \cup {Enqueued(i, ShipmentMessage(i, order[i]))}
                        ELSE orders
          /\ IF ok
             THEN /\ pc' = [pc EXCEPT ![i] = "finally"]
                  /\ logs' = [logs EXCEPT ![i] = @ \cup
                               {LogRec(i, "info", "clients", "shipment_sent"),
                                LogRec(i, "info", "workflow", "done")}]
                  /\ UNCHANGED exc
             ELSE /\ pc' = [pc EXCEPT ![i] = OuterHandler(k)]
                  /\ exc' = [exc EXCEPT ![i] = k]
                  /\ logs' = [logs EXCEPT ![i] = @ \cup
                               {LogRec(i, "error", "clients", "shipment_send_failed")} \cup
                               (IF reconnect /\ IsInstance(co, "AMQPConnectionError")
                                THEN {LogRec(i, "critical", "clients", "wms_connect_failed")} ELSE {})]
  /\ UNCHANGED <<order, response, tasks, posted, rbody, channel, http_client, reservation,
                 is_client, listenerVars>>

\* except grpc.RpcError
HandleRpcError(i) ==
  /\ pc[i] = "h_rpc"
  /\ logs' = [logs EXCEPT ![i] = @ \cup {LogRec(i, "error", "workflow", "aborted_grpc_inventory")}]
  /\ exc' = [exc EXCEPT ![i] = "none"]
  /\ pc' = [pc EXCEPT ![i] = "finally"]
  /\ UNCHANGED <<order, response, tasks, posted, rbody, sent, channel, http_client,
                 reservation, is_client, wms_client, calls, pubconn, orders, listenerVars>>

\* except pika.exceptions.AMQPError
HandleAMQPError(i) ==
  /\ pc[i] = "h_amqp"
  /\ logs' = [logs EXCEPT ![i] = @ \cup {LogRec(i, "critical", "workflow", "aborted_mq_wms")}]
  /\ exc' = [exc EXCEPT ![i] = "none"]
  /\ pc' = [pc EXCEPT ![i] = "finally"]
  /\ UNCHANGED <<order, response, tasks, posted, rbody, sent, channel, http_client,
                 reservation, is_client, wms_client, calls, pubconn, orders, listenerVars>>

\* EmergencyCompensation without the test of the reservation.
EmergencyCompensation_NoReservationTest(i) == is_client[i]

\* The condition of the emergency compensation in the catch-all handler.
EmergencyCompensation(i) ==
  /\ reservation[i] # "unbound"
  /\ reservation[i] = "RESERVED"
  /\ is_client[i]

\* except Exception: critical log, then the emergency compensation; what the
\* release raises there leaves the function.
HandleException(i) ==
  /\ pc[i] = "h_exc"
  /\ IF EmergencyCompensation(i)
     THEN \E rel \in ReleaseOutcomes :
            /\ calls' = [calls EXCEPT ![i] = Append(@, Call("ReleaseItems", rel.raised, rel.val, 0))]
            /\ exc' = [exc EXCEPT ![i] = rel.raised]
            /\ logs' = [logs EXCEPT ![i] = @ \cup ReleaseLogs(i, rel) \cup
                         {LogRec(i, "critical", "workflow", "unknown_error"),
                          LogRec(i, "info", "workflow", "emergency_compensation")}]
     ELSE /\ exc' = [exc EXCEPT ![i] = "none"]
          /\ logs' = [logs EXCEPT ![i] = @ \cup {LogRec(i, "critical", "workflow", "unknown_error")}]
          /\ UNCHANGED calls
  /\ pc' = [pc EXCEPT ![i] = "finally"]
  /\ UNCHANGED <<order, response, tasks, posted, rbody, sent, channel, http_client,
                 reservation, is_client, wms_client, pubconn, orders, listenerVars>>

\* finally: wms_client.close() when an adapter was constructed; close() closes
\* the connection only if it is open.  The function then returns, or raises
\* what is still in flight.
Finally(i) ==
  /\ pc[i] = "finally"
  /\ \E cl \in CloseOutcomes :
       LET closing == wms_client[i] = "open"
           k == IF closing /\ cl # "none" THEN cl ELSE exc[i]
       IN /\ ~closing => cl = "none"
          /\ calls' = [calls EXCEPT ![i] =
                         IF closing THEN Append(@, Call("Close", cl, "", 0)) ELSE @]
          /\ wms_client' = [wms_client EXCEPT ![i] = IF closing THEN "closed" ELSE @]
          /\ exc' = [exc EXCEPT ![i] = k]
          /\ pc' = [pc EXCEPT ![i] = IF k = "none" THEN "returned" ELSE "raised"]
  /\ UNCHANGED <<order, response, tasks, posted, rbody, sent, channel, http_client,
                 reservation, is_client, logs, pubconn, orders, listenerVars>>

SagaNext ==
  \/ BrokerRestart
  \/ \E i \in Submits :
       \/ Submit(i)
       \/ SagaStart(i)
       \/ Step1Reserve(i)
       \/ Step2Charge(i)
       \/ CompHttp(i)
       \/ CompTransport(i)
       \/ Step3New(i)
       \/ Step3Send(i)
       \/ HandleRpcError(i)
       \/ HandleAMQPError(i)
       \/ HandleException(i)
       \/ Finally(i)

Spec == Init /\ [][SagaNext]_vars

\* ---------------------------------------------------------- status listener
\* Bodies the WMS (or anyone) may publish to wms.status.updates.
StatusBodies ==
  { "{\"orderId\":\"o1\",\"status\":\"ORDER_SHIPPED\",\"trackingNumber\":\"TRK1\"}",
    "{}",
    "[1]",
    "null",
    "not-json",
    "<bytes ff fe: no UTF-8>" }

\* json.loads on each of these bodies: the Python value it returns, or the
\* exception it raises.
JsonLoads(body) ==
  CASE body = "{\"orderId\":\"o1\",\"status\":\"ORDER_SHIPPED\",\"trackingNumber\":\"TRK1\"}"
                                          -> Returned("dict")
    [] body = "{}"                        -> Returned("dict")
    [] body = "[1]"                       -> Returned("list")
    [] body = "null"                      -> Returned("None")
    [] body = "<bytes ff fe: no UTF-8>"   -> Raised("UnicodeDecodeError")
    [] OTHER                              -> Raised("JSONDecodeError")

\* The body is a JSON text (RFC 8259: any JSON value).
ParsesAsJson(body) == JsonLoads(body).raised = "none"

\* callback(ch, method, properties, body): the disposition it issues ("none"
\* if it issues none) and the exception that leaves it.
Callback(body) ==
  LET data == JsonLoads(body) IN
  IF data.raised = "none"
  THEN IF data.val = "dict"
       THEN [disp |-> "ack", raised |-> "none"]
       ELSE [disp |-> "none", raised |-> "AttributeError"]       \* data.get
  ELSE IF IsInstance(data.raised, "JSONDecodeError")
       THEN [disp |-> "nack", raised |-> "none"]
       ELSE [disp |-> "none", raised |-> data.raised]

\* The callback with the acknowledgement issued before the update is logged.
CallbackEvents_AckFirst(body) ==
  LET data == JsonLoads(body) IN
  IF data.raised = "none"
  THEN IF data.val = "dict" THEN <<"ack", "log_status">> ELSE <<"raise">>
  ELSE IF IsInstance(data.raised, "JSONDecodeError") THEN <<"log_invalid", "nack">>
       ELSE <<"raise">>

\* callback: what it does, in statement order.  log_status is the log.info
\* of the update, log_invalid the log.error of the except clause, raise an
\* exception leaving the callback.
CallbackEvents(body) ==
  LET data == JsonLoads(body) IN
  IF data.raised = "none"
  THEN IF data.val = "dict" THEN <<"log_status", "ack">> ELSE <<"raise">>
  ELSE IF IsInstance(data.raised, "JSONDecodeError") THEN <<"log_invalid", "nack">>
       ELSE <<"raise">>

\* ListenerOnError without the catch-all clause.
ListenerOnError_NoCatchAll(k) ==
  IF IsInstance(k, "AMQPConnectionError") THEN "sleep" ELSE "stopped"

\* The except clauses of the listener loop: both sleep and loop again.
ListenerOnError(k) ==
  IF IsInstance(k, "AMQPConnectionError") THEN "sleep"
  ELSE IF IsInstance(k, "Exception") THEN "sleep"
  ELSE "stopped"

ConnIds == 1..MaxConns

\* Messages without disposition on the connections in cs, in queue order.
RECURSIVE SeqOfSet(_)
SeqOfSet(S) ==
  IF S = {} THEN <<>>
  ELSE LET m == CHOOSE x \in S : \A y \in S : x <= y IN <<m>> \o SeqOfSet(S \ {m})

Requeued(cs) == SeqOfSet({u[2] : u \in {v \in unacked : v[1] \in cs}})

\* The WMS publishes a status message.
WmsPublish ==
  /\ brokerUp
  /\ published < MaxMsgs
  /\ \E b \in StatusBodies :
       /\ bodies' = Append(bodies, b)
       /\ disp' = Append(disp, <<>>)
       /\ queue' = Append(queue, published + 1)
  /\ published' = published + 1
  /\ UNCHANGED <<lpc, brokerUp, flips, unacked, lconns, cur, hadError, recovered, lastcb,
                 sagaVars>>

\* The broker becomes unreachable: every connection is dropped and the
\* messages left without disposition on them return to the queue.
BrokerDown ==
  /\ brokerUp
  /\ flips < MaxFlips
  /\ brokerUp' = FALSE
  /\ flips' = flips + 1
  /\ queue' = Requeued(lconns) \o queue
  /\ unacked' = {}
  /\ lconns' = {}
  /\ UNCHANGED <<lpc, bodies, published, disp, cur, hadError, recovered, lastcb, sagaVars>>

BrokerBack ==
  /\ ~brokerUp
  /\ flips < MaxFlips
  /\ brokerUp' = TRUE
  /\ flips' = flips + 1
  /\ UNCHANGED <<lpc, queue, bodies, published, unacked, disp, lconns, cur, hadError,
                 recovered, lastcb, sagaVars>>

\* A connection the loop no longer uses is closed at some point (missed
\* heartbeats, or finalization of the abandoned object); its messages
\* without disposition return to the queue.
AbandonedConnClosed ==
  /\ \E c \in lconns :
       /\ ~(c = cur /\ lpc = "consume")
       /\ lconns' = lconns \ {c}
       /\ queue' = Requeued({c}) \o queue
       /\ unacked' = {u \in unacked : u[1] # c}
  /\ UNCHANGED <<lpc, brokerUp, flips, bodies, published, disp, cur, hadError, recovered,
                 lastcb, sagaVars>>

\* Top of the loop: BlockingConnection, channel, queue_declare, basic_consume.
ListenerConnect ==
  /\ lpc = "connect"
  /\ IF brokerUp
     THEN /\ \E c \in ConnIds \ lconns :
               /\ \A d \in ConnIds \ lconns : c <= d
               /\ cur' = c
               /\ lconns' = lconns \cup {c}
          /\ lpc' = "consume"
          /\ recovered' = (recovered \/ hadError)
          /\ UNCHANGED hadError
     ELSE /\ lpc' = ListenerOnError("AMQPConnectionError")
          /\ hadError' = TRUE
          /\ UNCHANGED <<cur, lconns, recovered>>
  /\ UNCHANGED <<brokerUp, flips, queue, bodies, published, unacked, disp, lastcb, sagaVars>>

\* start_consuming hands the next message to callback.
ListenerDeliver ==
  /\ lpc = "consume"
  /\ cur \in lconns
  /\ queue # <<>>
  /\ LET m == Head(queue)
         r == Callback(bodies[m])
     IN /\ queue' = Tail(queue)
        /\ lastcb' = [m |-> m, ev |-> CallbackEvents(bodies[m])]
        /\ IF r.raised = "none"
           THEN /\ disp' = [disp EXCEPT ![m] = Append(@, r.disp)]
                /\ UNCHANGED <<lpc, unacked, hadError>>
           ELSE /\ unacked' = unacked \cup {<<cur, m>>}
                /\ lpc' = ListenerOnError(r.raised)
                /\ hadError' = TRUE
                /\ UNCHANGED disp
  /\ UNCHANGED <<brokerUp, flips, bodies, published, lconns, cur, recovered, sagaVars>>

\* start_consuming raises because the connection was dropped.
ListenerConnLost ==
  /\ lpc = "consume"
  /\ cur \notin lconns
  /\ lpc' = ListenerOnError("AMQPConnectionError")
  /\ hadError' = TRUE
  /\ UNCHANGED <<brokerUp, flips, queue, bodies, published, unacked, disp, lconns, cur,
                 recovered, lastcb, sagaVars>>

\* start_consuming returns because the broker cancelled the consumer: the
\* loop goes on without sleeping and without closing the connection.
ListenerConsumeStops ==
  /\ lpc = "consume"
  /\ cur \in lconns
  /\ lpc' = "connect"
  /\ UNCHANGED <<brokerUp, flips, queue, bodies, published, unacked, disp, lconns, cur,
                 hadError, recovered, lastcb, sagaVars>>

\* time.sleep(10) is over.
ListenerWake ==
  /\ lpc = "sleep"
  /\ lpc' = "connect"
  /\ UNCHANGED <<brokerUp, flips, queue, bodies, published, unacked, disp, lconns, cur,
                 hadError, recovered, lastcb, sagaVars>>

ListenerStep == ListenerConnect \/ ListenerDeliver \/ ListenerConnLost \/ ListenerWake

ListenerNext ==
  \/ WmsPublish
  \/ BrokerDown
  \/ BrokerBack
  \/ AbandonedConnClosed
  \/ ListenerConnect
  \/ ListenerDeliver
  \/ ListenerConnLost
  \/ ListenerConsumeStops
  \/ ListenerWake

ListenerSpec == Init /\ [][ListenerNext]_vars

\* The listener thread keeps running, and an abandoned connection does not
\* stay open forever.
ListenerLive ==
  /\ ListenerSpec
  /\ WF_vars(ListenerStep)
  /\ WF_vars(AbandonedConnClosed)

\* ================================================================== claims
Terminated(i) == pc[i] \in {"returned", "raised"}
InSaga(i) == pc[i] \notin {"unsubmitted", "rejected", "failed"}

CallIdx(i) == 1..Len(calls[i])
CallsOf(i, op) == {k \in CallIdx(i) : calls[i][k].op = op}
Count(i, op) == Cardinality(CallsOf(i, op))

\* ReserveItems returned RESERVED / the reserve step failed.
ReservedOK(i) ==
  \E k \in CallsOf(i, "ReserveItems") : calls[i][k].raised = "none" /\ calls[i][k].val = "RESERVED"
ReserveFailed(i) ==
  \E k \in CallsOf(i, "ReserveItems") : calls[i][k].raised # "none" \/ calls[i][k].val # "RESERVED"

\* The charge call raised (HTTP status >= 400, timeout, connection error, other).
ChargeRaised(i) == \E k \in CallsOf(i, "CreateCharge") : calls[i][k].raised # "none"
\* The charge call got an HTTP 2xx response.
Charge2xx(i) ==
  \E k \in CallsOf(i, "CreateCharge") : calls[i][k].http >= 200 /\ calls[i][k].http < 300
\* Step 2 ran and did not complete / completed.
ChargeStepFailed(i) ==
  \E k \in CallsOf(i, "CreateCharge") : calls[i][k].raised # "none" \/ calls[i][k].val # "dict"
ChargeStepOK(i) ==
  \E k \in CallsOf(i, "CreateCharge") : calls[i][k].raised = "none" /\ calls[i][k].val = "dict"

ReleaseFailed(i) == \E k \in CallsOf(i, "ReleaseItems") : calls[i][k].raised # "none"
ShipAttempted(i) == Count(i, "WMSConnect") + Count(i, "Publish") > 0

\* A highest-severity record of the orchestrator that carries the orderId.
OrchestratorCritical(i) ==
  \E l \in logs[i] : l.lvl = "critical" /\ l.src = "workflow" /\ l.oid = order[i].orderId

\* C1: when ReserveItems returned RESERVED and the charge call raised, the
\* terminated saga has invoked ReleaseItems exactly once.
C1_ReleaseExactlyOnce ==
  \A i \in Submits :
    (Terminated(i) /\ ReservedOK(i) /\ ChargeRaised(i)) => Count(i, "ReleaseItems") = 1

\* C2: CreateCharge is called only after ReserveItems returned RESERVED, the
\* shipment adapter is used only after CreateCharge returned, and each of
\* the three forward calls is made at most once.
C2_StepsOrdered ==
  \A i \in Submits :
    /\ \A k \in CallsOf(i, "CreateCharge") :
         \E j \in CallsOf(i, "ReserveItems") :
           j < k /\ calls[i][j].raised = "none" /\ calls[i][j].val = "RESERVED"
    /\ \A k \in CallsOf(i, "WMSConnect") \cup CallsOf(i, "Publish") :
         \E j \in CallsOf(i, "CreateCharge") :
           j < k /\ calls[i][j].raised = "none" /\ calls[i][j].http >= 200 /\ calls[i][j].http < 300
    /\ Count(i, "ReserveItems") <= 1
    /\ Count(i, "CreateCharge") <= 1
    /\ Count(i, "Publish") <= 1

C2_Witness ==
  \E i \in Submits :
    /\ pc[i] = "returned"
    /\ \E k \in CallsOf(i, "Publish") : calls[i][k].raised = "none"

\* C3: a saga whose charge step failed never constructs a shipment adapter
\* and never publishes.
C3_NoShipAfterChargeFailure ==
  \A i \in Submits :
    ChargeStepFailed(i) => (Count(i, "WMSConnect") = 0 /\ Count(i, "Publish") = 0)

C3_Witness ==
  \E i \in Submits :
    /\ Terminated(i)
    /\ \E k \in CallsOf(i, "CreateCharge") :
         calls[i][k].raised = "HTTPStatusError" /\ calls[i][k].http = 402
    /\ Count(i, "ReleaseItems") = 1

\* C4: a saga whose reserve step failed (the call raised, or returned a
\* status other than RESERVED) makes no release, no charge and no publish.
C4_NoCallsAfterReserveFailure ==
  \A i \in Submits :
    ReserveFailed(i) =>
      /\ Count(i, "ReleaseItems") = 0
      /\ Count(i, "CreateCharge") = 0
      /\ Count(i, "WMSConnect") = 0
      /\ Count(i, "Publish") = 0

C4_Witness ==
  \E i, j \in Submits :
    /\ Terminated(i) /\ Terminated(j)
    /\ \E k \in CallsOf(i, "ReserveItems") : calls[i][k].raised = "Exception"
    /\ \E k \in CallsOf(j, "ReserveItems") : calls[j][k].val = "UNKNOWN_STATUS"

\* C5: a saga whose charge call got an HTTP 2xx response goes on to the
\* shipment step and never releases the reservation.
C5_Any2xxIsSuccess ==
  \A i \in Submits :
    (Terminated(i) /\ Charge2xx(i)) => (ShipAttempted(i) /\ Count(i, "ReleaseItems") = 0)

\* The shipment step failed with a broker error (connection or publish).
ShipBrokerFailure(i) ==
  \E k \in CallsOf(i, "WMSConnect") \cup CallsOf(i, "Publish") :
    IsInstance(calls[i][k].raised, "AMQPError")

\* C6: after a successful reservation and payment, a broker failure in the
\* shipment step ends the saga with a critical orchestrator record carrying
\* the orderId, and with no ReleaseItems call (nothing but Close follows).
C6_ShipFailureAlertsManual ==
  \A i \in Submits :
    (Terminated(i) /\ ReservedOK(i) /\ ChargeStepOK(i) /\ ShipBrokerFailure(i)) =>
      /\ OrchestratorCritical(i)
      /\ Count(i, "ReleaseItems") = 0
      /\ \A k \in CallIdx(i) :
           calls[i][k].op \in {"ReserveItems", "CreateCharge", "WMSConnect", "Publish", "Close"}

C6_Witness ==
  \E i, j \in Submits :
    /\ Terminated(i) /\ Terminated(j)
    /\ \E k \in CallsOf(i, "Publish") : calls[i][k].raised = "AMQPConnectionError"
    /\ Count(j, "Publish") = 0
    /\ \E k \in CallsOf(j, "WMSConnect") : calls[j][k].raised = "AMQPChannelError"

\* C7: when the charge step failed and the compensating ReleaseItems failed
\* too, the orchestrator has logged a critical record and has not classified
\* the outcome as a gRPC failure of the inventory step.
C7_CompensationFailureAlertsManual ==
  \A i \in Submits :
    (Terminated(i) /\ ChargeStepFailed(i) /\ ReleaseFailed(i)) =>
      /\ OrchestratorCritical(i)
      /\ ~\E l \in logs[i] : l.src = "workflow" /\ l.msg = "aborted_grpc_inventory"

\* A message that was handed to the callback and is not back in the queue.
Handled(m) == \A k \in 1..Len(queue) : queue[k] # m

\* C8: every message handed to the callback has exactly one disposition:
\* ack if its body parses as JSON, nack otherwise.
C8_OneDispositionPerMessage ==
  \A m \in 1..published :
    Handled(m) => disp[m] = <<IF ParsesAsJson(bodies[m]) THEN "ack" ELSE "nack">>

\* C9: the listener loop never stops, and if the broker stays available from
\* some point on, the listener is consuming again and again.
C9_ListenerNeverStops ==
  /\ [](lpc # "stopped")
  /\ (<>[]brokerUp) => ([]<>(lpc = "consume"))

C9_Witness == recovered /\ lpc = "consume" /\ flips = MaxFlips

\* C10: every order that reaches the saga satisfies the Order constraints.
C10_SagaOrdersValid ==
  \A i \in Submits : InSaga(i) => OrderConstraints(order[i])

\* Request i has been answered.
Answered(i) == pc[i] # "unsubmitted"

\* Request i is the next one a caller can post.
NextToPost(i) == pc[i] = "unsubmitted" /\ (i > 1 => pc[i - 1] # "unsubmitted")

\* C11: a Submit that fails validation schedules no saga and causes no call
\* to any external system: it is answered 422, no background task is added,
\* no order reaches the orchestrator and no ReserveItems, charge, publish or
\* ReleaseItems call is ever recorded for it.
C11_RejectedSubmitHasNoEffect ==
  \A i \in Submits :
    (Answered(i) /\ ~ValidRequest(posted[i])) =>
      /\ response[i] = 422
      /\ pc[i] = "rejected"
      /\ tasks[i] = 0
      /\ order[i] = NoOrder
      /\ calls[i] = <<>>
      /\ logs[i] = {}

C11_Witness ==
  \E i, j \in Submits :
    /\ i # j
    /\ Answered(i) /\ ~ValidRequest(posted[i]) /\ response[i] = 422
    /\ Terminated(j)

\* C12: Submit is fire-and-forget: the next request can always be answered,
\* whatever step the sagas already scheduled are waiting in, and at the moment
\* a request has been accepted no step of its saga has run yet.
C12_SubmitFireAndForget ==
  /\ \A j \in Submits : NextToPost(j) => ENABLED Submit(j)
  /\ \A i \in Submits :
       pc[i] = "scheduled" => response[i] = 202 /\ calls[i] = <<>> /\ logs[i] = {}

C12_Witness ==
  \E i, j \in Submits :
    /\ i # j
    /\ pc[j] = "scheduled" /\ response[j] = 202
    /\ pc[i] \in {"step1", "step2", "step3_send"}

\* C13: each Submit is either accepted (202, exactly one saga scheduled with
\* the submitted order, body processingId = "proc-" + orderId, the orderId and
\* status "Processing accepted") or fails with 422 (validation) or 500
\* (internal error before scheduling) and schedules nothing.
C13_AcceptedOrError ==
  \A i \in Submits :
    Answered(i) =>
      /\ response[i] \in {202, 422, 500}
      /\ response[i] = 422 <=> ~ValidRequest(posted[i])
      /\ response[i] = 202 =>
           /\ tasks[i] = 1
           /\ order[i] = posted[i]
           /\ InSaga(i)
           /\ rbody[i].processingId = "proc-" \o posted[i].orderId
           /\ rbody[i].orderId = posted[i].orderId
           /\ rbody[i].status = "Processing accepted"
      /\ response[i] # 202 => tasks[i] = 0 /\ ~InSaga(i) /\ rbody[i].status = ""

C13_Witness ==
  \E i, j \in Submits :
    /\ response[i] = 202 /\ rbody[i].processingId = "proc-o1" /\ Terminated(i)
    /\ response[j] = 500

\* The requests of kind op that saga i handed to its adapters.
SentIdx(i) == 1..Len(sent[i])
SentOf(i, op) == {k \in SentIdx(i) : sent[i][k].op = op}

\* The publish to wms.orders.new returned.
PublishOK(i) == \E k \in CallsOf(i, "Publish") : calls[i][k].raised = "none"

\* All three downstream calls of saga i succeeded.
AllForwardOK(i) == ReservedOK(i) /\ ChargeStepOK(i) /\ PublishOK(i)

\* C14: no saga makes a forward call more than once, and a saga whose three
\* downstream calls succeeded has made exactly one ReserveItems call, one
\* charge call and one publish that carries the order's orderId and items,
\* has made no ReleaseItems call, and has reached DONE (the orchestrator's
\* completion record) without an error record of the orchestrator.
C14_HappyPathOnceEach ==
  \A i \in Submits :
    /\ Count(i, "ReserveItems") <= 1
    /\ Count(i, "CreateCharge") <= 1
    /\ Count(i, "Publish") <= 1
    /\ \A op \in {"ReserveItems", "CreateCharge", "Publish"} :
         Cardinality(SentOf(i, op)) = Count(i, op)
    /\ AllForwardOK(i) =>
         /\ Count(i, "ReserveItems") = 1
         /\ Count(i, "CreateCharge") = 1
         /\ Count(i, "Publish") = 1
         /\ Count(i, "ReleaseItems") = 0
         /\ pc[i] \in {"finally", "returned", "raised"}
         /\ LogRec(i, "info", "workflow", "done") \in logs[i]
         /\ \A l \in logs[i] : l.src = "workflow" => l.lvl = "info"
         /\ \A k \in SentOf(i, "ReserveItems") : sent[i][k].orderId = order[i].orderId
         /\ \A k \in SentOf(i, "Publish") :
              sent[i][k].orderId = order[i].orderId /\ sent[i][k].items = order[i].items

C14_Witness ==
  \E i \in Submits :
    /\ AllForwardOK(i) /\ pc[i] = "returned"
    /\ order[i] = BaseOrder
    /\ Len(sent[i]) = 3

\* floor(x * 100) for the binary64 value x > 0, the product taken exactly.
FloorOfHundredfold(x) == Trunc([m |-> Strip(MulSmall(Limbs(x.m), 100, 0, <<>>)), e |-> x.e])

\* C15: the amount of every charge request for a non-negative totalAmount x
\* (the float the request was parsed to) is floor(x * 100).
C15_AmountIsFloor ==
  \A i \in Submits : \A k \in SentOf(i, "CreateCharge") :
    order[i].totalAmount >= 0 =>
      sent[i][k].amount = IF order[i].totalAmount = 0 THEN 0
                          ELSE FloorOfHundredfold(Double(order[i].totalAmount))

\* C15 read on the decimal amount the caller posted: the amount of every
\* charge request is the decimal totalAmount in whole cents, fractions of a
\* cent dropped (0.29 gives 29, 149.995 gives 14999).
C15_AmountIsDecimalFloor ==
  \A i \in Submits : \A k \in SentOf(i, "CreateCharge") :
    order[i].totalAmount >= 0 =>
      sent[i][k].amount = (order[i].totalAmount * 100) \div AmountScale

\* The Idempotency-Key headers of all charge requests, as (saga, position).
ChargeKeys == UNION {{<<i, k>> : k \in SentOf(i, "CreateCharge")} : i \in Submits}

\* C16: the Idempotency-Key values of all charge requests of all sagas are
\* pairwise distinct, and each is a uuid4 value drawn for that call.
C16_IdempotencyKeysDistinct ==
  \A p, q \in ChargeKeys :
    /\ sent[p[1]][p[2]].idempotencyKey.src = "uuid4"
    /\ p # q => sent[p[1]][p[2]].idempotencyKey # sent[q[1]][q[2]].idempotencyKey

C16_Witness ==
  \E p, q \in ChargeKeys :
    /\ p[1] # q[1]
    /\ order[p[1]].orderId = order[q[1]].orderId
    /\ sent[p[1]][p[2]].referenceId = sent[q[1]][q[2]].referenceId

\* The published shipment instructions, as (saga, position).
Instructions == UNION {{<<i, k>> : k \in SentOf(i, "Publish")} : i \in Submits}

\* C17: every shipment instruction carries an instructionId drawn for that
\* publish, distinct from the instructionId of every other instruction,
\* those for the same orderId included.
C17_InstructionIdsDistinct ==
  \A p, q \in Instructions :
    /\ sent[p[1]][p[2]].instructionId.src = "uuid4"
    /\ sent[p[1]][p[2]].instructionId.saga = p[1]
    /\ p # q => sent[p[1]][p[2]].instructionId # sent[q[1]][q[2]].instructionId

C17_Witness ==
  \E p, q \in Instructions :
    /\ p[1] # q[1]
    /\ sent[p[1]][p[2]].orderId = sent[q[1]][q[2]].orderId
    /\ PublishOK(p[1]) /\ PublishOK(q[1])

\* C18: the items of every ReserveItems request and of every published
\* shipment instruction equal the items of the submitted order, element by
\* element and in the same order.
C18_ItemOrderPreserved ==
  \A i \in Submits : \A k \in SentOf(i, "ReserveItems") \cup SentOf(i, "Publish") :
    /\ Len(sent[i][k].items) = Len(posted[i].items)
    /\ \A j \in 1..Len(posted[i].items) :
         /\ sent[i][k].items[j].sku = posted[i].items[j].sku
         /\ sent[i][k].items[j].quantity = posted[i].items[j].quantity

C18_Witness ==
  \E i \in Submits :
    /\ Len(posted[i].items) > 1
    /\ posted[i].items[1] # posted[i].items[2]
    /\ SentOf(i, "ReserveItems") # {} /\ SentOf(i, "Publish") # {}

\* A step of the saga of request i.
SagaStep(i) ==
  \/ SagaStart(i) \/ Step1Reserve(i) \/ Step2Charge(i)
  \/ CompHttp(i) \/ CompTransport(i)
  \/ Step3New(i) \/ Step3Send(i)
  \/ HandleRpcError(i) \/ HandleAMQPError(i) \/ HandleException(i)
  \/ Finally(i)

\* Everything the module keeps about request i and its saga.
SagaState(i) ==
  <<pc[i], order[i], response[i], tasks[i], reservation[i], is_client[i], wms_client[i],
    exc[i], calls[i], logs[i], posted[i], rbody[i], sent[i], channel[i], http_client[i]>>

\* Requests i and j were accepted with the same orderId.
Duplicates(i, j) ==
  i # j /\ response[i] = 202 /\ response[j] = 202 /\ order[i].orderId = order[j].orderId

\* C19: Submits are not deduplicated and their sagas are independent: every
\* valid request that meets no internal error is accepted with a saga of its
\* own, whatever was accepted before; an unfinished saga can always take its
\* next step, whatever the other sagas do; and a step of one request or saga
\* changes nothing of another.
C19_DuplicatesRunIndependently ==
  /\ [](\A i \in Submits :
          /\ (Answered(i) /\ ValidRequest(posted[i]) /\ response[i] # 500)
               => (response[i] = 202 /\ tasks[i] = 1 /\ InSaga(i))
          /\ (InSaga(i) /\ ~Terminated(i)) => ENABLED SagaStep(i))
  /\ [][\A i, j \in Submits : (i # j /\ SagaState(i)' # SagaState(i))
                                 => SagaState(j)' = SagaState(j)]_vars

C19_Witness ==
  \E i, j \in Submits :
    /\ Duplicates(i, j)
    /\ order[i] = BaseOrder
    /\ AllForwardOK(i) /\ AllForwardOK(j)
    /\ pc[i] = "returned" /\ pc[j] = "returned"

\* C20: when a saga has terminated, on whatever exit path, every resource it
\* acquired has been released by the saga itself: the broker connection of
\* the shipment adapter, the inventory channel and the payment HTTP client.
C20_ResourcesReleasedAtExit ==
  \A i \in Submits :
    Terminated(i) =>
      /\ wms_client[i] # "open"
      /\ channel[i] # "open"
      /\ http_client[i] # "open"

\* The events of a callback run hold a disposition.
Disposes(ev) == \E k \in 1..Len(ev) : ev[k] \in {"ack", "nack"}

\* C21: the Status Consumer handles one message at a time in delivery order:
\* each callback run is for the message at the head of the queue and touches
\* the disposition of no other message; a disposition the run issues is in
\* place when the run ends, before the next message is handed over; and a
\* JSON-object message is logged before it is acked.
C21_OneAtATimeInOrder ==
  /\ [](lastcb.m # 0 =>
          /\ Disposes(lastcb.ev) => disp[lastcb.m] = <<lastcb.ev[Len(lastcb.ev)]>>
          /\ \A k \in 1..Len(lastcb.ev) :
               lastcb.ev[k] = "ack" => \E j \in 1..(k - 1) : lastcb.ev[j] = "log_status"
          /\ JsonLoads(bodies[lastcb.m]) = Returned("dict") => lastcb.ev = <<"log_status", "ack">>)
  /\ [][ListenerDeliver =>
          /\ lastcb'.m = Head(queue)
          /\ \A n \in 1..published : n # Head(queue) => disp'[n] = disp[n]
          /\ (lastcb.m # 0 /\ Disposes(lastcb.ev)) => disp[lastcb.m] # <<>>]_vars

C21_Witness ==
  /\ published = MaxMsgs
  /\ lastcb.m = MaxMsgs
  /\ lastcb.ev = <<"log_status", "ack">>
  /\ disp[1] = <<"ack">> /\ disp[MaxMsgs] = <<"ack">>

\* C27: no message stalls the Status Consumer: if the broker stays available
\* from some point on, every message that was handed to the callback
\* eventually has a disposition.
C27_EveryDeliveredMessageDisposed ==
  (<>[]brokerUp) =>
    \A m \in 1..MaxMsgs :
      [](lastcb.m = m => <>(m <= published /\ disp[m] # <<>>))

\* C29: the Status Consumer holds at most one open broker connection at any
\* time.
C29_AtMostOneConnection == Cardinality(lconns) <= 1

\* C24: once the charge call has returned on an HTTP 2xx, the saga never
\* invokes ReleaseItems, whatever fails afterwards.
C24_NoReleaseAfterCapture ==
  \A i \in Submits :
    \A k \in CallsOf(i, "CreateCharge") :
      (calls[i][k].http >= 200 /\ calls[i][k].http < 300) =>
        \A r \in CallsOf(i, "ReleaseItems") : r < k

\* C25: no exception propagates out of process_order_workflow: the saga
\* returns normally on every path.
C25_NoExceptionEscapes ==
  \A i \in Submits : pc[i] # "raised" /\ (pc[i] = "returned" => exc[i] = "none")

\* C26: a saga invokes ReleaseItems at most once, and only after ReserveItems
\* returned RESERVED.
C26_ReleaseAtMostOnce ==
  \A i \in Submits :
    /\ Count(i, "ReleaseItems") <= 1
    /\ \A r \in CallsOf(i, "ReleaseItems") :
         \E k \in CallsOf(i, "ReserveItems") :
           k < r /\ calls[i][k].raised = "none" /\ calls[i][k].val = "RESERVED"

\* The adapter call that saga i made last.
LastCall(i) == calls[i][Len(calls[i])]

\* C22: basic_publish is never called on a closed connection: when the
\* connection is closed at the time of the request, a successful reconnect
\* directly precedes the publish; and when the reconnect or the publish
\* fails, the failure is raised to the orchestrator, which enters the handler
\* for it, and the instruction is not logged as sent.
C22_ReconnectBeforePublish ==
  /\ [](\A i \in Submits :
          /\ pubconn[i] # "closed"
          /\ \A k \in CallsOf(i, "Publish") :
               /\ pubconn[i] \in {"open", "reopened"}
               /\ pubconn[i] = "reopened" =>
                    (k > 1 /\ calls[i][k - 1] = Call("WMSConnect", "none", "", 0)
                           /\ Count(i, "WMSConnect") = 2)
               /\ calls[i][k].raised # "none" =>
                    LogRec(i, "info", "clients", "shipment_sent") \notin logs[i])
  /\ [][\A i \in Submits :
          (pc[i] = "step3_send" /\ pc'[i] # "step3_send") =>
            IF LastCall(i)'.raised = "none"
            THEN LastCall(i)'.op = "Publish" /\ pc'[i] = "finally" /\ exc'[i] = "none"
            ELSE /\ exc'[i] = LastCall(i)'.raised
                 /\ pc'[i] = OuterHandler(exc'[i])
                 /\ LogRec(i, "info", "clients", "shipment_sent") \notin logs'[i]
                 /\ LogRec(i, "info", "workflow", "done") \notin logs'[i]
                 /\ orders' = orders]_vars

C22_Witness ==
  \E i, j \in Submits :
    /\ pubconn[i] = "reopened" /\ PublishOK(i)
    /\ Count(j, "WMSConnect") = 2 /\ LastCall(j).op = "WMSConnect"
    /\ LastCall(j).raised # "none" /\ Terminated(j)

\* C23: a shipment instruction whose publish to wms.orders.new returned is
\* in the queue, also after a broker restart.
C23_PublishedSurvivesRestart ==
  \A i \in Submits :
    PublishOK(i) =>
      \E q \in orders : \E k \in SentOf(i, "Publish") :
        q.saga = i /\ q.id = sent[i][k].instructionId

\* The number of steps that a request or saga at position p can still take,
\* at most.
StepsLeft(p) ==
  CASE p = "unsubmitted" -> 8
    [] p = "scheduled" -> 7
    [] p = "step1" -> 6
    [] p = "step2" -> 5
    [] p \in {"comp_http", "comp_transport", "step3_new"} -> 4
    [] p = "step3_send" -> 3
    [] p \in {"h_rpc", "h_amqp", "h_exc"} -> 2
    [] p = "finally" -> 1
    [] OTHER -> 0

\* The orchestrator's records that close a saga, by terminal outcome.
TerminalRecords ==
  [DONE |-> {"done"},
   CANCELLED |-> {"cancelled_out_of_stock", "cancelled_item_not_found",
                  "cancelled_unknown_status", "aborted_grpc_inventory"},
   COMPENSATED |-> {"compensated"},
   ALERT_MANUAL |-> {"compensation_failed", "aborted_mq_wms", "unknown_error"}]

\* The terminal outcomes that the orchestrator has logged for saga i.
Outcomes(i) ==
  {o \in DOMAIN TerminalRecords :
     \E l \in logs[i] : l.src = "workflow" /\ l.msg \in TerminalRecords[o]}

\* C28: every saga terminates: an unfinished saga can always take its next
\* step (each adapter call returns or raises), every step brings it strictly
\* closer to its end, so that it ends after at most seven steps; it makes at
\* most one reserve, one charge, one publish and two release calls; and a
\* terminated saga has logged exactly one terminal outcome.
C28_SagaTerminates ==
  /\ [](\A i \in Submits :
          /\ (InSaga(i) /\ ~Terminated(i)) => ENABLED SagaStep(i)
          /\ Terminated(i) <=> (InSaga(i) /\ StepsLeft(pc[i]) = 0)
          /\ Count(i, "ReserveItems") <= 1
          /\ Count(i, "CreateCharge") <= 1
          /\ Count(i, "Publish") <= 1
          /\ Count(i, "ReleaseItems") <= 2
          /\ Cardinality(Outcomes(i)) <= 1
          /\ Terminated(i) => Cardinality(Outcomes(i)) = 1)
  /\ [][\A i \in Submits :
          SagaState(i)' # SagaState(i) => StepsLeft(pc'[i]) < StepsLeft(pc[i])]_vars

C28_Witness ==
  \E i, j \in Submits :
    /\ Terminated(i) /\ Outcomes(i) = {"ALERT_MANUAL"} /\ Count(i, "ReleaseItems") = 2
    /\ Terminated(j) /\ Outcomes(j) = {"DONE"}

====
